---- MODULE Spec2Model ----
(***************************************************************************)
(* Model of get_logs (src/script.py, lines 133-157): the /logs handler     *)
(* that returns the last `lines` lines of a file by reading it backwards   *)
(* in blocks of 8192 bytes.                                                *)
(*                                                                         *)
(* Bytes are kept run-length encoded: a byte string is a sequence of runs  *)
(* [k |-> kind, n |-> count], no two adjacent runs of the same kind.       *)
(* Kinds: "a" a valid text byte, "x" a byte that is not valid UTF-8,       *)
(* "\n" and "\r" the two line terminator bytes of bytes.splitlines, and    *)
(* "?" the replacement character a decoder with errors="replace" emits.    *)
(***************************************************************************)
EXTENDS Integers, Sequences, FiniteSets, TLC

\* ---------------------------------------------------------------- bounds
\* most runs in an initial file (sequential specification)
MaxRuns == 5
\* most runs in an initial file (specification with a concurrent writer)
MaxConcRuns == 2
\* most runs in an initial file (specification with fairness)
MaxFairRuns == 3
\* largest requested line count tried (the route allows 1..500)
MaxK == 2
\* most steps of the concurrent writer during one call
MaxEnv == 1

\* ------------------------------------------------------- program constants
\* block = 8192
block == 8192

\* ------------------------------------------------------------ byte strings
LF == "\n"
CR == "\r"

Run(k, n) == [k |-> k, n |-> n]

Min(a, b) == IF a <= b THEN a ELSE b

\* len(b)
RECURSIVE Size(_)
Size(b) == IF b = <<>> THEN 0 ELSE Head(b).n + Size(Tail(b))

\* b1 + b2 on bytes
Concat(b1, b2) ==
  IF b1 = <<>> THEN b2
  ELSE IF b2 = <<>> THEN b1
  ELSE IF b1[Len(b1)].k = Head(b2).k
       THEN SubSeq(b1, 1, Len(b1) - 1)
            \o <<Run(Head(b2).k, b1[Len(b1)].n + Head(b2).n)>>
            \o Tail(b2)
       ELSE b1 \o b2

\* b[d:]
RECURSIVE Drop(_, _)
Drop(b, d) ==
  IF d <= 0 \/ b = <<>> THEN b
  ELSE IF Head(b).n <= d THEN Drop(Tail(b), d - Head(b).n)
  ELSE <<Run(Head(b).k, Head(b).n - d)>> \o Tail(b)

\* b[:t]
RECURSIVE Take(_, _)
Take(b, t) ==
  IF t <= 0 \/ b = <<>> THEN <<>>
  ELSE IF Head(b).n <= t THEN <<Head(b)>> \o Take(Tail(b), t - Head(b).n)
  ELSE <<Run(Head(b).k, t)>>

\* what read(n) returns at offset pos of a file holding `content`: up to n
\* bytes, fewer when the file ends first, none at or past the end
ReadAt(content, pos, n) == Take(Drop(content, pos), n)

\* data.count(b"\n")
RECURSIVE count(_, _)
count(b, k) ==
  IF b = <<>> THEN 0
  ELSE (IF Head(b).k = k THEN Head(b).n ELSE 0) + count(Tail(b), k)

\* bytes.splitlines(): the terminators are \n, \r and \r\n; a last line
\* without a terminator is a line; no empty line follows a final terminator
RECURSIVE SplitAcc(_, _, _)
SplitAcc(rest, cur, acc) ==
  IF rest = <<>> THEN (IF cur = <<>> THEN acc ELSE Append(acc, cur))
  ELSE LET h == Head(rest)
           less == IF h.n > 1 THEN <<Run(h.k, h.n - 1)>> \o Tail(rest)
                   ELSE Tail(rest)
       IN IF h.k = LF THEN SplitAcc(less, <<>>, Append(acc, cur))
          ELSE IF h.k = CR
               THEN IF h.n = 1 /\ Len(rest) > 1 /\ rest[2].k = LF
                    THEN SplitAcc(Drop(rest, 2), <<>>, Append(acc, cur))
                    ELSE SplitAcc(less, <<>>, Append(acc, cur))
               ELSE SplitAcc(Tail(rest), Append(cur, h), acc)

splitlines(b) == SplitAcc(b, <<>>, <<>>)

\* s[-n:] for n >= 1
LastN(s, n) == IF Len(s) <= n THEN s ELSE SubSeq(s, Len(s) - n + 1, Len(s))

\* merge adjacent runs of one kind
RECURSIVE Norm(_)
Norm(b) == IF b = <<>> THEN <<>> ELSE Concat(<<Head(b)>>, Norm(Tail(b)))

IsInvalid(r) == r.k = "x"
IsValid(r) == r.k # "x"

\* ln.decode(errors="replace"): every invalid byte becomes U+FFFD
RECURSIVE decode_replace(_)
decode_replace(ln) ==
  IF ln = <<>> THEN <<>>
  ELSE Concat(<<IF IsInvalid(Head(ln)) THEN Run("?", Head(ln).n) ELSE Head(ln)>>,
              decode_replace(Tail(ln)))

\* ln.decode(errors="ignore"): every invalid byte is dropped
decode(ln) == Norm(SelectSeq(ln, IsValid))

\* [ln.decode(errors="ignore") for ln in last]
decode_all(last) == [i \in 1..Len(last) |-> decode(last[i])]

\* ------------------------------------------------------------------ state
VARIABLES
  path,     \* what `file` names now: [kind: missing | dir | file, readable]
  content,  \* the bytes of the file `file` names (of its inode once opened)
  lines,    \* the query parameter lines
  pc,       \* the handler's position
  f,        \* the handle of path.open("rb"): none | open | closed
  tell,     \* f.tell()
  data,     \* the bytes accumulated so far
  jump,     \* the size of the latest backward step
  iters,    \* how many times the loop body has run
  opens,    \* how many times path.open was called
  status,   \* the HTTP status of the response, 0 while the call runs
  result,   \* LogLines.lines of the response
  env       \* steps the concurrent writer may still take

vars == <<path, content, lines, pc, f, tell, data, jump, iters, opens, status,
          result, env>>

\* the run tokens initial files are built from: text of 1, block - 2 and
\* block - 1 bytes, one invalid byte, and the two terminator bytes
Tokens == {Run("a", 1), Run("a", block - 2), Run("a", block - 1),
           Run("x", 1), Run(LF, 1), Run(CR, 1)}

Files(m) == UNION {{Norm(t) : t \in [1..n -> Tokens]} : n \in 0..m}

\* lines: int = Query(50, ge=1, le=500)
LinesRange == 1..Min(MaxK, 500)

PathStates == {[kind |-> "missing", readable |-> FALSE],
               [kind |-> "dir", readable |-> TRUE],
               [kind |-> "file", readable |-> FALSE],
               [kind |-> "file", readable |-> TRUE]}

InitCall(m, e) ==
  /\ path \in PathStates
  /\ content \in (IF path.kind = "file" /\ path.readable THEN Files(m) ELSE {<<>>})
  /\ lines \in LinesRange
  /\ pc = "exists"
  /\ f = "none"
  /\ tell = 0
  /\ data = <<>>
  /\ jump = 0
  /\ iters = 0
  /\ opens = 0
  /\ status = 0
  /\ result = <<>>
  /\ env = e

Init == InitCall(MaxRuns, 0)

InitConc == InitCall(MaxConcRuns, MaxEnv)

\* ------------------------------------------------------------- the handler
\* Path.exists()
exists(p) == p.kind # "missing"

is_file_any(p) == p.kind # "missing"

\* Path.is_file()
is_file(p) == p.kind = "file"

handler_none(exc) == 500

\* except PermissionError -> 403; any other exception leaves the handler
\* and the framework answers 500
handler(exc) == IF exc = "PermissionError" THEN 403 ELSE 500

with_exit_leak(h) == h

\* leaving the with block, normally or by an exception, closes the handle
with_exit(h) == "closed"

keep_reading_lt(pos, d, l) == pos > 0 /\ count(d, LF) < l

keep_reading_once(pos, d, l) == pos > 0 /\ d = <<>>

keep_reading_all(pos, d, l) == pos > 0

\* while f.tell() > 0 and data.count(b"\n") <= lines
keep_reading(pos, d, l) == pos > 0 /\ count(d, LF) <= l

jump_block(pos) == block

\* jump = min(f.tell(), block)
jump_of(pos) == Min(pos, block)

Respond(code) ==
  /\ pc' = "done"
  /\ status' = code

\* if not (path.exists() ...
Exists ==
  /\ pc = "exists"
  /\ IF exists(path) THEN pc' = "is_file" /\ status' = status
     ELSE Respond(404)
  /\ UNCHANGED <<path, content, lines, f, tell, data, jump, iters, opens,
                 result, env>>

\* ... and path.is_file()): raise HTTPException(status_code=404)
IsFile ==
  /\ pc = "is_file"
  /\ IF is_file(path) THEN pc' = "open" /\ status' = status
     ELSE Respond(404)
  /\ UNCHANGED <<path, content, lines, f, tell, data, jump, iters, opens,
                 result, env>>

\* the exception path.open("rb") raises, "" when it succeeds
open_exc(p) ==
  IF p.kind = "missing" THEN "FileNotFoundError"
  ELSE IF p.kind = "dir" THEN "IsADirectoryError"
  ELSE IF ~p.readable THEN "PermissionError"
  ELSE ""

\* with path.open("rb") as f
Open ==
  /\ pc = "open"
  /\ opens' = opens + 1
  /\ IF open_exc(path) = ""
     THEN /\ f' = "open"
          /\ tell' = 0
          /\ pc' = "seek_end"
          /\ status' = status
     ELSE /\ Respond(handler(open_exc(path)))
          /\ UNCHANGED <<f, tell>>
  /\ UNCHANGED <<path, content, lines, data, jump, iters, result, env>>

\* f.seek(0, os.SEEK_END); data = b""
SeekEnd ==
  /\ pc = "seek_end"
  /\ tell' = Size(content)
  /\ data' = <<>>
  /\ pc' = "while"
  /\ UNCHANGED <<path, content, lines, f, jump, iters, opens, status, result,
                 env>>

\* one run of the loop body: seek back, read, seek back again.  A seek to
\* a negative offset raises OSError, which leaves the with block.
Loop ==
  /\ pc = "while"
  /\ keep_reading(tell, data, lines)
  /\ LET j == jump_of(tell)
         p1 == tell - j
         chunk == ReadAt(content, p1, j)
         p2 == p1 + Size(chunk)
         p3 == p2 - j
     IN /\ jump' = j
        /\ IF p1 < 0 \/ p3 < 0
           THEN /\ f' = with_exit(f)
                /\ Respond(handler("OSError"))
                /\ UNCHANGED <<tell, data, iters>>
           ELSE /\ tell' = p3
                /\ data' = Concat(chunk, data)
                /\ iters' = iters + 1
                /\ UNCHANGED <<f, pc, status>>
  /\ UNCHANGED <<path, content, lines, opens, result, env>>

\* last = data.splitlines()[-lines:]; return LogLines(...)
Return ==
  /\ pc = "while"
  /\ ~keep_reading(tell, data, lines)
  /\ f' = with_exit(f)
  /\ result' = decode_all(LastN(splitlines(data), lines))
  /\ Respond(200)
  /\ UNCHANGED <<path, content, lines, tell, data, jump, iters, opens, env>>

Next == Exists \/ IsFile \/ Open \/ SeekEnd \/ Loop \/ Return

Spec == Init /\ [][Next]_vars

InitFair == InitCall(MaxFairRuns, 0)

\* the handler is synchronous: once called, it keeps taking steps until it
\* returns or raises
FairSpec == InitFair /\ [][Next]_vars /\ WF_vars(Next)

\* --------------------------------------------------- a concurrent writer
\* another process appends one byte to the file
EnvAppend ==
  /\ env > 0 /\ pc # "done" /\ path.kind = "file"
  /\ \E t \in {Run("a", 1), Run(LF, 1)} : content' = Concat(content, <<t>>)
  /\ env' = env - 1
  /\ UNCHANGED <<path, lines, pc, f, tell, data, jump, iters, opens, status,
                 result>>

\* another process truncates the file
EnvTruncate ==
  /\ env > 0 /\ pc # "done" /\ path.kind = "file"
  /\ \E n \in {0, Size(content) - 1} :
       /\ 0 <= n /\ n < Size(content)
       /\ content' = Take(content, n)
  /\ env' = env - 1
  /\ UNCHANGED <<path, lines, pc, f, tell, data, jump, iters, opens, status,
                 result>>

\* another process unlinks the file; an open handle keeps its bytes
EnvDelete ==
  /\ env > 0 /\ pc # "done" /\ path.kind = "file"
  /\ path' = [kind |-> "missing", readable |-> FALSE]
  /\ env' = env - 1
  /\ UNCHANGED <<content, lines, pc, f, tell, data, jump, iters, opens,
                 status, result>>

NextConc == Next \/ EnvAppend \/ EnvTruncate \/ EnvDelete

SpecConc == InitConc /\ [][NextConc]_vars

\* ----------------------------------------------------------- properties
Done == pc = "done"

Readable == path.kind = "file" /\ path.readable

\* the logical lines of the whole file, as raw bytes
whole == splitlines(content)

\* the raw bytes of the last `lines` logical lines of the whole file
rawlast == IF Len(whole) <= lines THEN whole
           ELSE [i \in 1..lines |-> whole[Len(whole) - lines + i]]

\* the text of a raw line that holds no invalid byte
HasInvalid(ln) == count(ln, "x") > 0

CeilDiv(a, b) == (a + b - 1) \div b

\* length of the shortest suffix of b that holds m newline bytes, -1 if
\* b holds fewer than m
RECURSIVE SuffixLen(_, _)
SuffixLen(b, m) ==
  IF m <= 0 THEN 0
  ELSE IF b = <<>> THEN -1
  ELSE LET l == b[Len(b)]
           front == SubSeq(b, 1, Len(b) - 1)
       IN IF l.k = LF /\ l.n >= m THEN m
          ELSE LET r == SuffixLen(front, IF l.k = LF THEN m - l.n ELSE m)
               IN IF r < 0 THEN -1 ELSE r + l.n

\* bytes the loop has to cover: the shortest suffix with lines + 1 newline
\* bytes, the whole file when there is none
Needed == IF SuffixLen(content, lines + 1) < 0 THEN Size(content)
          ELSE SuffixLen(content, lines + 1)

\* the byte at offset i (0-based) of b, "" outside b
ByteAt(b, i) == IF i < 0 \/ i >= Size(b) THEN "" ELSE Head(Drop(b, i)).k

\* C1: a readable file with at least `lines` logical lines yields status 200
\* and exactly its last `lines` logical lines, each whole and decoded, in
\* file order, whatever the alignment of lines and blocks.
C1_LastLines ==
  (Done /\ Readable /\ Len(whole) >= lines) =>
    /\ status = 200
    /\ Len(result) = lines
    /\ \A i \in 1..lines :
         result[i] = Norm(SelectSeq(whole[Len(whole) - lines + i], IsValid))

\* the scan stopped before the start of the file, at a block boundary that
\* falls between the \r and the \n of one terminator
C1_Witness ==
  /\ Done /\ status = 200
  /\ Len(whole) > lines
  /\ Size(data) < Size(content)
  /\ ByteAt(data, 0) = LF
  /\ ByteAt(content, Size(content) - Size(data) - 1) = CR

\* C2: a readable file with fewer than `lines` logical lines yields status
\* 200 and all its lines in file order, fewer than `lines` of them, and the
\* loop ended with the cursor at 0 and the whole file in the buffer.
C2_AllLines ==
  (Done /\ Readable /\ Len(whole) < lines) =>
    /\ status = 200
    /\ Len(result) = Len(whole)
    /\ Len(result) < lines
    /\ \A i \in 1..Len(whole) : result[i] = Norm(SelectSeq(whole[i], IsValid))
    /\ tell = 0
    /\ data = content

\* a file of several blocks with at least one but fewer than `lines` lines
C2_Witness ==
  /\ Done /\ status = 200
  /\ Len(whole) >= 1 /\ Len(whole) < lines
  /\ iters >= 2

C4_NotFound ==
  (Done /\ path.kind # "file") =>
    /\ status = 404
    /\ f = "none" /\ opens = 0
    /\ iters = 0 /\ tell = 0 /\ data = <<>>
    /\ result = <<>>

C4_Witness == Done /\ path.kind = "dir" /\ status = 404

\* C5: a regular file the caller may not read ends in 403, after one
\* attempt to open it, with no lines.
C5_Forbidden ==
  (Done /\ path.kind = "file" /\ ~path.readable) =>
    /\ status = 403
    /\ opens = 1
    /\ f = "none"
    /\ result = <<>>

C5_Witness == Done /\ path.kind = "file" /\ ~path.readable /\ status = 403

\* C6: every call ends with status 200, 404 or 403, whatever a concurrent
\* writer does to the file.
C6_ThreeOutcomes == Done => status \in {200, 404, 403}

\* C7 as stated: the number of block reads is bounded by the requested line
\* count alone (lines + 1 reads suffice when every block holds a newline).
C7_BoundedByLines == iters <= lines + 1

\* C7 amended: a successful call performs exactly ceil(min(S, N) / block)
\* block reads, S the file size and N the length of the shortest suffix
\* with lines + 1 newline bytes (S when there is none): never more than
\* ceil(S / block), and growing with S when the newlines are too few.
C7_ItersExact ==
  (Done /\ status = 200) =>
    /\ iters = CeilDiv(Min(Size(content), Needed), block)
    /\ iters <= CeilDiv(Size(content), block)

\* more block reads than lines + 1
C7_Witness == Done /\ status = 200 /\ iters > lines + 1

\* C8: a block is read only while the buffer holds at most `lines` newline
\* bytes, the buffer is always a suffix of the file, and at loop exit it
\* is the whole file or less than one block longer than the shortest
\* suffix with lines + 1 newline bytes.
C8_BoundedOverRead ==
  [][/\ iters' = iters + 1 => count(data, LF) <= lines
     /\ data' = Drop(content', Size(content') - Size(data'))
     /\ (pc = "while" /\ pc' = "done" /\ status' = 200) =>
          \/ data = content
          \/ /\ SuffixLen(content, lines + 1) >= 0
             /\ Size(data) < SuffixLen(content, lines + 1) + block]_vars

\* the loop stopped early after several blocks, with a real over-read
C8_Witness ==
  /\ Done /\ status = 200
  /\ iters >= 2
  /\ Size(data) < Size(content)
  /\ Size(data) > Needed

\* C9: every run of the loop body takes a jump of 1..block bytes and moves
\* the cursor back by exactly that, never below 0; there are at most
\* ceil(S / block) runs; a non-empty file without a terminator is read to
\* offset 0 and returned as one line; and the call ends.
C9_Terminates ==
  /\ [][(pc = "while" /\ keep_reading(tell, data, lines)) =>
          /\ jump' >= 1 /\ jump' <= block
          /\ tell' = tell - jump'
          /\ tell' >= 0 /\ tell' < tell
          /\ iters' = iters + 1
          /\ iters' <= CeilDiv(Size(content), block)]_vars
  /\ []((Done /\ Readable /\ Size(content) > 0 /\ Len(whole) = 1
           /\ count(content, LF) + count(content, CR) = 0) =>
          /\ tell = 0
          /\ iters = CeilDiv(Size(content), block)
          /\ Len(result) = 1)
  /\ <>Done

\* a file of three blocks or more without any terminator came back whole
C9_Witness ==
  /\ Done /\ status = 200
  /\ count(content, LF) + count(content, CR) = 0
  /\ iters >= 3
  /\ tell = 0
  /\ Len(result) = 1

\* C10: no handle is open once the call has ended, whatever the outcome;
\* a handle exists only after a successful open, and is open only between
\* the open and the end of the with block.
C10_HandleReleased ==
  /\ Done => f # "open"
  /\ f # "none" => (opens = 1 /\ pc \in {"seek_end", "while", "done"})
  /\ f = "open" <=> pc \in {"seek_end", "while"}
  /\ (Done /\ status \in {404, 403}) => f = "none"

\* the loop failed on a seek after the file was truncated under it
C10_Witness == Done /\ status = 500 /\ f = "closed" /\ jump > 0

====
